---- MODULE Spec2Model ----
(***************************************************************************)
(* The speech acquisition pipeline of the solar-system explorer: the       *)
(* useHybridTTS hook (src/src/hooks/useHybridTTS.ts), the two route        *)
(* handlers it calls, and the browser objects it drives (fetch with an     *)
(* AbortController, HTMLAudioElement, window.speechSynthesis).             *)
(*                                                                         *)
(* The hook runs on the single UI thread.  One step of the model is one    *)
(* task of the event loop: a call of a hook function, or a completion the  *)
(* browser delivers (a fetch settling, a media event, an utterance event), *)
(* together with every promise continuation the task makes runnable.       *)
(* A fetch and the reading of its body (response.blob(), response.json())  *)
(* are one wait: an abort rejects either, and the hook changes no state    *)
(* between them.                                                           *)
(***************************************************************************)
EXTENDS Integers, Sequences, FiniteSets, TLC

\* Number of generateSpeech calls a behaviour may make.
MaxReq == 2
\* Media events an audio element may have queued and not yet delivered.
MaxPending == 2

\* Longest list of facts of a body handed to generateBasicNarration.
MaxFacts == 4

\* Last reading of the scene clock, in ticks.
MaxTime == 3

\* At most this many clicks on bodies are followed.
MaxClicks == 3

Reqs == 1..MaxReq
Tiers == {1, 2, 3}

VARIABLES
  audioSupported,      \* typeof Audio !== 'undefined'
  speechSupported,     \* 'speechSynthesis' in window
  keyConfigured,       \* OPENROUTER_API_KEY set and not the placeholder
  isLoading, isPlaying, isPaused, error, ttsMode,     \* useState values
  audioRef, utteranceRef, abortControllerRef,         \* useRef values (0 = null)
  nreq,                \* generateSpeech calls made so far; call r is request r
  pc,                  \* where each generateSpeech invocation is suspended
  tier,                \* the tier each invocation has reached (0 = none)
  failed,              \* the tiers each invocation has seen return false
  cancelled,           \* cancelGeneration ran while the invocation was in a tier
  superseded,          \* a later generateSpeech ran while its /api/tts fetch was in flight
  audio,               \* state of the Audio element request r created
  events,              \* media events queued on that element, oldest first
  utt,                 \* state of the utterance request r has handed to speak()
  synthPaused,         \* speechSynthesis.paused
  lastCall,            \* the hook function the last step called ("event" = none)
  stopped,             \* stop() was called during playback, and no play(), toggle() or generateSpeech since
  planetData,          \* generateBasicNarration: the body it is given
  useIndonesian,       \* generateBasicNarration: the locale flag
  narration,           \* generateBasicNarration: the text returned (<<>> = not yet)
  clock,               \* clock.getElapsedTime(), in ticks
  orbitSpeedMultiplier,\* SolarSystemScene state, in hundredths
  frameTime,           \* per run and body: clock reading of its last frame (-1 = none)
  transform,           \* per run and body: group position, mesh rotation.y, last angle
  isOpen,              \* OrbitSpeedSettings: the panel is unfolded
  dragged,             \* where the slider thumb was last dragged to, in hundredths
  selectedPlanet,      \* Home state: the name of the selected body ("null" = none)
  clicked,             \* the bodies clicked since the page loaded, oldest first
  request,             \* route handlers: the request received and what the upstream calls will do
  handler              \* route handlers: how far POST has got, and its response

envVars == <<audioSupported, speechSupported, keyConfigured>>
hookVars == <<audioSupported, speechSupported, keyConfigured,
              isLoading, isPlaying, isPaused, error, ttsMode,
              audioRef, utteranceRef, abortControllerRef,
              nreq, pc, tier, failed, cancelled, superseded,
              audio, events, utt, synthPaused, lastCall, stopped>>
narrationVars == <<planetData, useIndonesian, narration>>
controlVars == <<isOpen, dragged>>
sceneVars == <<clock, orbitSpeedMultiplier, frameTime, transform, controlVars>>
panelVars == <<selectedPlanet>>
routeVars == <<request, handler>>
vars == <<hookVars, narrationVars, sceneVars, panelVars, routeVars, clicked>>

\* The state the hook functions read and write, as one record.
Cur ==
  [isLoading |-> isLoading, isPlaying |-> isPlaying, isPaused |-> isPaused,
   error |-> error, ttsMode |-> ttsMode,
   audioRef |-> audioRef, utteranceRef |-> utteranceRef,
   abortControllerRef |-> abortControllerRef,
   nreq |-> nreq, pc |-> pc, tier |-> tier, failed |-> failed,
   cancelled |-> cancelled, superseded |-> superseded,
   audio |-> audio, events |-> events, utt |-> utt,
   synthPaused |-> synthPaused, lastCall |-> lastCall]

\* An Audio element that nothing references any more, that is not playing and
\* has no event queued, is garbage: none of its listeners can run again.
Collected(s) ==
  [s EXCEPT !.audio = [r \in Reqs |->
      IF s.audioRef # r /\ s.events[r] = <<>>
         /\ s.audio[r] \in {"paused", "ended", "error"}
      THEN "none" ELSE s.audio[r]]]

\* A step that ends in state n (the environment never changes).
Becomes(n) ==
  /\ \A r \in Reqs : Len(n.events[r]) <= MaxPending
  /\ isLoading' = n.isLoading /\ isPlaying' = n.isPlaying
  /\ isPaused' = n.isPaused /\ error' = n.error /\ ttsMode' = n.ttsMode
  /\ audioRef' = n.audioRef /\ utteranceRef' = n.utteranceRef
  /\ abortControllerRef' = n.abortControllerRef
  /\ nreq' = n.nreq /\ pc' = n.pc /\ tier' = n.tier /\ failed' = n.failed
  /\ cancelled' = n.cancelled /\ superseded' = n.superseded
  /\ audio' = Collected(n).audio /\ events' = n.events /\ utt' = n.utt
  /\ synthPaused' = n.synthPaused /\ lastCall' = n.lastCall
  /\ stopped' = IF n.lastCall = "stop" THEN stopped \/ isPlaying \/ isPaused
                ELSE IF n.lastCall \in {"play", "toggle", "generateSpeech"}
                THEN FALSE ELSE stopped
  /\ UNCHANGED <<envVars, narrationVars, sceneVars, panelVars, routeVars, clicked>>

Called(n, f) == [n EXCEPT !.lastCall = f]

\* The messages generateSpeech gives setError.
UnsupportedMsg == "Speech synthesis not supported in this browser"
AllFailedMsg == "All TTS methods failed"

\* useEffect at mount: setIsSupported(audioSupported || speechSupported).
isSupported == audioSupported \/ speechSupported

----------------------------------------------------------------------------
(* The two route handlers, as the status (and text source) they answer.    *)

\* /api/tts without the check of the key (route.ts lines 17-23 left out).
TtsRoute_NoKeyCheck(hasPlanetData, key, aiTextOk, speechOk) ==
  IF ~hasPlanetData THEN 400
  ELSE IF speechOk THEN 200
  ELSE 500

\* POST /api/tts: 400 without planetData, 500 without a key, else the audio
\* when the upstream speech call succeeded and 500 when it did not.  A failed
\* text enrichment is replaced by the basic narration and fails nothing.
TtsRoute(hasPlanetData, key, aiTextOk, speechOk) ==
  IF ~hasPlanetData THEN 400
  ELSE IF ~key THEN 500
  ELSE IF speechOk THEN 200
  ELSE 500

\* POST /api/enhance-text: 400 without planetData, else 200 with the basic
\* narration (no key, or the AI call failed) or the AI text.
EnhanceTextRoute(hasPlanetData, key, aiTextOk) ==
  IF ~hasPlanetData THEN [status |-> 400, source |-> "none"]
  ELSE IF ~key THEN [status |-> 200, source |-> "basic"]
  ELSE IF aiTextOk THEN [status |-> 200, source |-> "ai"]
  ELSE [status |-> 200, source |-> "fallback"]

----------------------------------------------------------------------------
(* Browser primitives.                                                     *)

\* HTMLMediaElement.pause(): when not paused, set paused, queue 'pause' (the
\* same queued task rejects a play() promise that is still pending).
AudioPause(s, r) ==
  IF s.audio[r] \in {"starting", "playing"}
  THEN [s EXCEPT !.audio[r] = "paused", !.events[r] = Append(@, "pause")]
  ELSE s

\* speechSynthesis.cancel(): empties the queue and stops the utterance being
\* spoken; each removed utterance gets its event later.  The paused flag of
\* the synthesizer is left as it is.
SynthCancel(s) ==
  [s EXCEPT !.utt = [r \in Reqs |->
      IF s.utt[r] \in {"queued", "speaking"} THEN "cancelled" ELSE s.utt[r]]]

\* AbortController.abort(): a fetch still in flight rejects with AbortError.
Abort(s, r) ==
  IF s.pc[r] = "fetch" THEN [s EXCEPT !.pc[r] = "aborted"] ELSE s

----------------------------------------------------------------------------
(* The hook.                                                               *)

cleanup(s) ==
  LET s1 == IF s.audioRef # 0
            THEN [AudioPause(s, s.audioRef) EXCEPT !.audioRef = 0]
            ELSE s
      s2 == [(IF speechSupported THEN SynthCancel(s1) ELSE s1)
               EXCEPT !.utteranceRef = 0]
      s3 == IF s2.abortControllerRef # 0
            THEN [Abort(s2, s2.abortControllerRef)
                    EXCEPT !.abortControllerRef = 0]
            ELSE s2
  IN  [s3 EXCEPT !.isPlaying = FALSE, !.isPaused = FALSE]

\* tryAITTS up to its first await: the fetch to /api/tts is in flight.
tryAITTS(s, r) ==
  [s EXCEPT !.ttsMode = "ai", !.abortControllerRef = r,
            !.tier[r] = 1, !.pc[r] = "fetch"]

\* tryEnhancedBrowserTTS up to its first await: /api/enhance-text in flight.
tryEnhancedBrowserTTS(s, r) ==
  [s EXCEPT !.ttsMode = "enhanced-browser", !.abortControllerRef = r,
            !.tier[r] = 2, !.pc[r] = "fetch"]

\* generateSpeech after a tier returned true.
TierSucceeded(s, r) ==
  [s EXCEPT !.isLoading = FALSE, !.pc[r] = "done"]

\* The catch of generateSpeech without its setIsLoading(false).
AllFailed_LoadingLeftOn(s, r) ==
  [s EXCEPT !.error = AllFailedMsg, !.pc[r] = "done"]

\* generateSpeech after its last tier returned false: the throw and the catch.
AllFailed(s, r) ==
  [s EXCEPT !.isLoading = FALSE, !.error = AllFailedMsg,
            !.pc[r] = "done"]

RECURSIVE TierFailed(_, _)

\* playWithBrowserTTS without the test for window.speechSynthesis.
playWithBrowserTTS_NoCapabilityCheck(s, r) ==
  [SynthCancel(s) EXCEPT !.utt[r] = "queued", !.utteranceRef = r,
                         !.pc[r] = "speak"]

\* playWithBrowserTTS: resolve(false) at once without speechSynthesis, else
\* cancel(), and speak() a new utterance whose onend/onerror resolve later.
playWithBrowserTTS(s, r) ==
  IF ~speechSupported
  THEN TierFailed(s, r)
  ELSE [SynthCancel(s) EXCEPT !.utt[r] = "queued", !.utteranceRef = r,
                              !.pc[r] = "speak"]

tryBasicBrowserTTS(s, r) ==
  playWithBrowserTTS([s EXCEPT !.ttsMode = "basic-browser", !.tier[r] = 3], r)

\* generateSpeech without the return after a tier that succeeded.
TierChain_NoReturn(s, r, k, ok) ==
  IF k = 1 THEN tryEnhancedBrowserTTS(s, r)
  ELSE IF k = 2 THEN tryBasicBrowserTTS(s, r)
  ELSE AllFailed(s, r)

\* generateSpeech that gives up after tier 2, never trying the basic narration.
TierChain_NoBasic(s, r, k, ok) ==
  IF ok THEN TierSucceeded(s, r)
  ELSE IF k = 1 THEN tryEnhancedBrowserTTS(s, r)
  ELSE AllFailed(s, r)

\* What generateSpeech does with a tier's result: return on true, go on to
\* the next tier on false.
TierChain(s, r, k, ok) ==
  IF ok THEN TierSucceeded(s, r)
  ELSE IF k = 1 THEN tryEnhancedBrowserTTS(s, r)
  ELSE IF k = 2 THEN tryBasicBrowserTTS(s, r)
  ELSE AllFailed(s, r)

\* The current tier of request r returned false.
TierFailed(s, r) ==
  TierChain([s EXCEPT !.failed[r] = @ \cup {s.tier[r]}], r, s.tier[r], FALSE)

\* The current tier of request r returned true.
TierReturnedTrue(s, r) ==
  TierChain(s, r, s.tier[r], TRUE)

\* The promise reactions the task has made runnable: an aborted fetch rejects,
\* tryAITTS / tryEnhancedBrowserTTS catch it and return false.
RunMicrotasks(s) ==
  IF \E r \in Reqs : s.pc[r] = "aborted"
  THEN TierFailed(s, CHOOSE r \in Reqs : s.pc[r] = "aborted")
  ELSE s

Live(s, r) == s.pc[r] \notin {"new", "done"}

\* generateSpeech without the isSupported test.
generateSpeech_NoSupportCheck(s) ==
  LET r  == s.nreq + 1
      s1 == [s EXCEPT !.nreq = r, !.isLoading = TRUE, !.error = "null"]
  IN  RunMicrotasks(tryAITTS(cleanup(s1), r))

generateSpeech(s) ==
  IF ~isSupported
  THEN [s EXCEPT !.error = UnsupportedMsg]
  ELSE
    LET r  == s.nreq + 1
        s0 == [s EXCEPT !.nreq = r,
                 !.superseded = [q \in Reqs |->
                    s.superseded[q] \/ (s.tier[q] = 1 /\ s.pc[q] = "fetch")]]
        s1 == [s0 EXCEPT !.isLoading = TRUE, !.error = "null"]
    IN  RunMicrotasks(tryAITTS(cleanup(s1), r))

\* audio.play() called from the play control: resumes, and queues 'play' if
\* the element was paused; rejects on an element whose media failed.
play(s) ==
  IF s.ttsMode = "ai" /\ s.audioRef # 0
  THEN LET r == s.audioRef IN
       IF s.audio[r] = "error"
       THEN [s EXCEPT !.error = "Failed to play audio"]
       ELSE IF s.audio[r] \in {"paused", "ended"}
       THEN [s EXCEPT !.audio[r] = "playing", !.events[r] = Append(@, "play")]
       ELSE s
  ELSE IF s.ttsMode # "ai" /\ s.utteranceRef # 0
  THEN [s EXCEPT !.synthPaused = FALSE]
  ELSE s

\* Without window.speechSynthesis the call on it throws and changes nothing.
pause(s) ==
  IF s.ttsMode = "ai" /\ s.audioRef # 0
  THEN AudioPause(s, s.audioRef)
  ELSE IF s.ttsMode # "ai" /\ speechSupported
  THEN [s EXCEPT !.synthPaused = TRUE]
  ELSE s

stop(s) ==
  IF s.ttsMode = "ai" /\ s.audioRef # 0
  THEN [AudioPause(s, s.audioRef) EXCEPT !.isPlaying = FALSE, !.isPaused = FALSE]
  ELSE IF s.ttsMode # "ai"
  THEN IF speechSupported
       THEN [SynthCancel(s) EXCEPT !.isPlaying = FALSE, !.isPaused = FALSE]
       ELSE s
  ELSE [s EXCEPT !.isPlaying = FALSE, !.isPaused = FALSE]

\* toggle without the isLoading guard.
toggle_NoLoadingGuard(s) ==
  IF s.isPlaying /\ ~s.isPaused THEN pause(s)
  ELSE play(s)

toggle(s) ==
  IF s.isLoading THEN s
  ELSE IF s.isPlaying /\ ~s.isPaused THEN pause(s)
  ELSE play(s)

cancelGeneration(s) ==
  LET s0 == [s EXCEPT !.cancelled = [q \in Reqs |->
                 s.cancelled[q] \/ Live(s, q)]]
      s1 == IF s0.abortControllerRef # 0
            THEN Abort(s0, s0.abortControllerRef) ELSE s0
      s2 == [s1 EXCEPT !.isLoading = FALSE]
  IN  RunMicrotasks(cleanup(s2))

----------------------------------------------------------------------------
(* Steps: calls of the hook's functions.                                   *)

GenerateSpeech ==
  /\ nreq < MaxReq
  /\ Becomes(Called(generateSpeech(Cur), "generateSpeech"))

CancelGeneration ==
  /\ Becomes(Called(cancelGeneration(Cur), "cancelGeneration"))

Play ==
  /\ Becomes(Called(play(Cur), "play"))

Pause ==
  /\ Becomes(Called(pause(Cur), "pause"))

Stop ==
  /\ Becomes(Called(stop(Cur), "stop"))

Toggle ==
  /\ Becomes(Called(toggle(Cur), "toggle"))

(* Steps: completions the browser delivers.                                *)

\* tryAITTS after the response: on response.ok, new Audio(url) (a
\* ReferenceError without Audio), the four listeners, and audio.play(), which
\* rejects at once when playback is not allowed and else unpauses the element
\* and queues 'play'.
AITTSResponse(s, r, status, allowed) ==
  IF status # 200 \/ ~audioSupported \/ ~allowed
  THEN TierFailed(s, r)
  ELSE [s EXCEPT !.audioRef = r, !.audio[r] = "starting",
                 !.events[r] = Append(@, "play"), !.pc[r] = "play"]

\* tryEnhancedBrowserTTS after the response.
EnhancedResponse(s, r, resp) ==
  IF resp.status # 200 THEN TierFailed(s, r)
  ELSE playWithBrowserTTS(s, r)

\* A fetch settles: a network failure rejects it, else the route answers.
FetchSettles(r) ==
  /\ pc[r] = "fetch"
  /\ \E net \in BOOLEAN, aiTextOk \in BOOLEAN, speechOk \in BOOLEAN,
        allowed \in BOOLEAN :
       LET n == IF ~net THEN TierFailed(Cur, r)
                ELSE IF tier[r] = 1
                THEN AITTSResponse(Cur, r,
                       TtsRoute(TRUE, keyConfigured, aiTextOk, speechOk), allowed)
                ELSE EnhancedResponse(Cur, r,
                       EnhanceTextRoute(TRUE, keyConfigured, aiTextOk))
       IN  Becomes(Called(n, "event"))

\* The listeners of tryAITTS.
OnAudioEvent(s, ev) ==
  IF ev = "play" THEN [s EXCEPT !.isPlaying = TRUE, !.isPaused = FALSE]
  ELSE IF ev = "pause" THEN [s EXCEPT !.isPaused = TRUE]
  ELSE IF ev = "ended" THEN [s EXCEPT !.isPlaying = FALSE, !.isPaused = FALSE]
  ELSE [s EXCEPT !.isPlaying = FALSE, !.isPaused = FALSE,
                 !.error = "Audio playback failed"]

\* The oldest queued media event of an element is delivered.  The task that
\* fires 'pause' also rejects the play() promise tryAITTS still awaits.
AudioEvent(r) ==
  /\ events[r] # <<>>
  /\ LET ev == Head(events[r])
         s1 == OnAudioEvent([Cur EXCEPT !.events[r] = Tail(@)], ev)
         n  == IF ev = "pause" /\ pc[r] = "play" THEN TierFailed(s1, r) ELSE s1
     IN  Becomes(Called(n, "event"))

\* Playback begins: the play() promise resolves and tryAITTS returns true.
AudioPlaying(r) ==
  /\ audio[r] = "starting" /\ events[r] = <<>>
  /\ LET s1 == [Cur EXCEPT !.audio[r] = "playing"]
         n  == IF pc[r] = "play" THEN TierReturnedTrue(s1, r) ELSE s1
     IN  Becomes(Called(n, "event"))

\* The media cannot be loaded or decoded: 'error' fires and a pending play()
\* promise rejects.
AudioError(r) ==
  /\ audio[r] \in {"starting", "playing"} /\ events[r] = <<>>
  /\ LET s1 == OnAudioEvent([Cur EXCEPT !.audio[r] = "error"], "error")
         n  == IF pc[r] = "play" THEN TierFailed(s1, r) ELSE s1
     IN  Becomes(Called(n, "event"))

\* Playback reaches the end: the element pauses, 'pause' and 'ended' fire in
\* one task.
AudioEnded(r) ==
  /\ audio[r] = "playing" /\ events[r] = <<>>
  /\ Becomes(Called(
       OnAudioEvent(OnAudioEvent([Cur EXCEPT !.audio[r] = "ended"], "pause"),
                    "ended"), "event"))

\* utterance.onstart / onend / onerror of playWithBrowserTTS.
OnUtteranceEvent(s, r, ev) ==
  IF ev = "start" THEN [s EXCEPT !.isPlaying = TRUE, !.isPaused = FALSE]
  ELSE LET s1 == [s EXCEPT !.isPlaying = FALSE, !.isPaused = FALSE] IN
       IF ev = "end" THEN TierReturnedTrue(s1, r) ELSE TierFailed(s1, r)

UtteranceStart(r) ==
  /\ utt[r] = "queued" /\ ~synthPaused
  /\ Becomes(Called(
       OnUtteranceEvent([Cur EXCEPT !.utt[r] = "speaking"], r, "start"), "event"))

UtteranceEnd(r) ==
  /\ utt[r] = "speaking" /\ ~synthPaused
  /\ Becomes(Called(
       OnUtteranceEvent([Cur EXCEPT !.utt[r] = "none"], r, "end"), "event"))

\* The engine fails the utterance (synthesis-failed, voice-unavailable, ...).
UtteranceError(r) ==
  /\ utt[r] \in {"queued", "speaking"}
  /\ Becomes(Called(
       OnUtteranceEvent([Cur EXCEPT !.utt[r] = "none"], r, "error"), "event"))

\* An utterance removed by cancel() gets 'error' (canceled / interrupted); some
\* engines fire 'end' instead.
UtteranceCancelled(r) ==
  /\ utt[r] = "cancelled"
  /\ \E ev \in {"end", "error"} :
       Becomes(Called(
         OnUtteranceEvent([Cur EXCEPT !.utt[r] = "none"], r, ev), "event"))

----------------------------------------------------------------------------

\* The hook after its first render.
HookStart ==
  /\ isLoading = FALSE /\ isPlaying = FALSE /\ isPaused = FALSE
  /\ error = "null" /\ ttsMode = "ai"
  /\ audioRef = 0 /\ utteranceRef = 0 /\ abortControllerRef = 0
  /\ nreq = 0
  /\ pc = [r \in Reqs |-> "new"]
  /\ tier = [r \in Reqs |-> 0]
  /\ failed = [r \in Reqs |-> {}]
  /\ cancelled = [r \in Reqs |-> FALSE]
  /\ superseded = [r \in Reqs |-> FALSE]
  /\ audio = [r \in Reqs |-> "none"]
  /\ events = [r \in Reqs |-> <<>>]
  /\ utt = [r \in Reqs |-> "none"]
  /\ synthPaused = FALSE
  /\ lastCall = "event"
  /\ stopped = FALSE

\* Two runs of the scene, to compare frame schedules, and the bodies in them.
Runs == {1, 2}
BodyNames == {"Sun", "Earth", "Neptune"}

\* The names of all entries of the table.
AllBodyNames ==
  {"Sun", "Mercury", "Venus", "Earth", "Mars", "Jupiter", "Saturn", "Uranus",
   "Neptune"}

\* The entries of PLANET_DATA in the order of the array.
PlanetEntries ==
  <<[name |-> "Sun", scale |-> 30, orbitSpeed |-> 0, rotationSpeed |-> 5,
     distance |-> 0, type |-> "sun"],
    [name |-> "Mercury", scale |-> 4, orbitSpeed |-> 240, rotationSpeed |-> 8,
     distance |-> 8, type |-> "planet"],
    [name |-> "Venus", scale |-> 9, orbitSpeed |-> 180, rotationSpeed |-> 6,
     distance |-> 12, type |-> "planet"],
    [name |-> "Earth", scale |-> 10, orbitSpeed |-> 100, rotationSpeed |-> 10,
     distance |-> 16, type |-> "planet"],
    [name |-> "Mars", scale |-> 7, orbitSpeed |-> 80, rotationSpeed |-> 9,
     distance |-> 20, type |-> "planet"],
    [name |-> "Jupiter", scale |-> 25, orbitSpeed |-> 40, rotationSpeed |-> 15,
     distance |-> 28, type |-> "planet"],
    [name |-> "Saturn", scale |-> 22, orbitSpeed |-> 30, rotationSpeed |-> 13,
     distance |-> 36, type |-> "planet"],
    [name |-> "Uranus", scale |-> 18, orbitSpeed |-> 20, rotationSpeed |-> 11,
     distance |-> 44, type |-> "planet"],
    [name |-> "Neptune", scale |-> 17, orbitSpeed |-> 15, rotationSpeed |-> 12,
     distance |-> 52, type |-> "planet"]>>

\* The table with Mercury placed at distance 0.
PLANET_DATA_MercuryAtCentre ==
  [b \in AllBodyNames |->
     LET e == CHOOSE i \in DOMAIN PlanetEntries : PlanetEntries[i].name = b
     IN  IF b = "Mercury" THEN [PlanetEntries[e] EXCEPT !.distance = 0]
         ELSE PlanetEntries[e]]

\* PLANET_DATA by name: orbitSpeed in hundredths, rotationSpeed and scale in
\* tenths.
PLANET_DATA ==
  [b \in AllBodyNames |->
     PlanetEntries[CHOOSE i \in DOMAIN PlanetEntries : PlanetEntries[i].name = b]]

\* <group position={[0, 0, 0]}> and its mesh before any frame.
MountedTransform == [x |-> 0, y |-> 0, z |-> 0, rotationY |-> 0, angle |-> 0]

\* The scene as mounted: clock at 0, multiplier 1, no frame run yet, the
\* settings panel folded with its thumb at the multiplier, no body selected.
SceneStart ==
  /\ clock = 0
  /\ orbitSpeedMultiplier = 100
  /\ isOpen = FALSE
  /\ dragged = 100
  /\ selectedPlanet = "null"
  /\ clicked = <<>>
  /\ frameTime = [r \in Runs |-> [b \in BodyNames |-> -1]]
  /\ transform = [r \in Runs |-> [b \in BodyNames |-> MountedTransform]]

\* No narration text has been asked for.
NarrationStart ==
  /\ planetData = [name |-> "Earth", nameId |-> "Bumi",
                   description |-> "desc", descriptionId |-> "desk",
                   facts |-> <<"f1">>, factsId |-> <<"g1">>]
  /\ useIndonesian = TRUE
  /\ narration = <<>>

\* No request has reached a route handler.
RouteStart ==
  /\ request = [route |-> "none"]
  /\ handler = [pc |-> "idle"]

Init ==
  /\ audioSupported \in BOOLEAN
  /\ speechSupported \in BOOLEAN
  /\ keyConfigured \in BOOLEAN
  /\ HookStart
  /\ NarrationStart
  /\ SceneStart
  /\ RouteStart

Next ==
  \/ GenerateSpeech
  \/ CancelGeneration
  \/ Play
  \/ Pause
  \/ Stop
  \/ Toggle
  \/ \E r \in Reqs : FetchSettles(r)
  \/ \E r \in Reqs : AudioEvent(r)
  \/ \E r \in Reqs : AudioPlaying(r)
  \/ \E r \in Reqs : AudioError(r)
  \/ \E r \in Reqs : AudioEnded(r)
  \/ \E r \in Reqs : UtteranceStart(r)
  \/ \E r \in Reqs : UtteranceEnd(r)
  \/ \E r \in Reqs : UtteranceError(r)
  \/ \E r \in Reqs : UtteranceCancelled(r)

Spec == Init /\ [][Next]_vars

\* The browser delivers what it owes: a fetch in flight settles, a queued media
\* event is dispatched, an element that was told to play starts or fails, a
\* playing element reaches its end, and an utterance the synthesizer holds is
\* started, finished, failed or dropped.
Delivery ==
  \A r \in Reqs :
    /\ WF_vars(FetchSettles(r))
    /\ WF_vars(AudioEvent(r))
    /\ WF_vars(AudioPlaying(r) \/ AudioError(r))
    /\ WF_vars(AudioEnded(r))
    /\ WF_vars(UtteranceStart(r))
    /\ WF_vars(UtteranceEnd(r) \/ UtteranceError(r))
    /\ WF_vars(UtteranceCancelled(r))

\* The calls that may intervene in a request, and the browser's completions.
LiveNext ==
  \/ GenerateSpeech
  \/ CancelGeneration
  \/ Stop
  \/ \E r \in Reqs : FetchSettles(r)
  \/ \E r \in Reqs : AudioEvent(r)
  \/ \E r \in Reqs : AudioPlaying(r)
  \/ \E r \in Reqs : AudioError(r)
  \/ \E r \in Reqs : AudioEnded(r)
  \/ \E r \in Reqs : UtteranceStart(r)
  \/ \E r \in Reqs : UtteranceEnd(r)
  \/ \E r \in Reqs : UtteranceError(r)
  \/ \E r \in Reqs : UtteranceCancelled(r)

LiveSpec == Init /\ [][LiveNext]_vars /\ Delivery

----------------------------------------------------------------------------
(* The tier-3 text.  A text is the sequence of its pieces: a word or phrase, *)
(* a punctuation mark, or one space; concatenation of texts is \o.          *)

\* Array.prototype.join: the texts of parts with sep between neighbours.
RECURSIVE Join(_, _)
Join(parts, sep) ==
  IF parts = <<>> THEN <<>>
  ELSE IF Len(parts) = 1 THEN parts[1]
  ELSE parts[1] \o sep \o Join(Tail(parts), sep)

\* generateBasicNarration numbering the facts from index instead of index + 1.
generateBasicNarration_ZeroBased(data, indonesian) ==
  LET name == IF indonesian THEN data.nameId ELSE data.name
      description == IF indonesian THEN data.descriptionId ELSE data.description
      facts == IF indonesian THEN data.factsId ELSE data.facts
      introduction ==
        IF indonesian
        THEN <<"Halo teman-teman!", " ", "Mari kita pelajari tentang", " ",
               name, ".", " ", description>>
        ELSE <<"Hello friends!", " ", "Let's learn about", " ",
               name, ".", " ", description>>
      factsIntro == IF indonesian THEN <<"Berikut adalah fakta-fakta menarik:">>
                    ELSE <<"Here are some amazing facts:">>
      factsList ==
        Join([i \in 1..Len(facts) |->
                LET index == i - 1
                    factNumber == IF indonesian
                                  THEN <<"Fakta ke-", ToString(index)>>
                                  ELSE <<"Fact number", " ", ToString(index)>>
                IN  factNumber \o <<":", " ", facts[i], ".">>],
             <<" ">>)
      conclusion ==
        IF indonesian
        THEN <<"Itulah informasi menarik tentang", " ", name, ".", " ",
               "Terima kasih sudah mendengarkan!">>
        ELSE <<"That was interesting information about", " ", name, ".", " ",
               "Thank you for listening!">>
  IN  introduction \o <<" ">> \o factsIntro \o <<" ">> \o factsList
        \o <<" ">> \o conclusion

\* generateBasicNarration of the hook: the template strings, facts.map with
\* its zero-based index, and join(' ').
generateBasicNarration(data, indonesian) ==
  LET name == IF indonesian THEN data.nameId ELSE data.name
      description == IF indonesian THEN data.descriptionId ELSE data.description
      facts == IF indonesian THEN data.factsId ELSE data.facts
      introduction ==
        IF indonesian
        THEN <<"Halo teman-teman!", " ", "Mari kita pelajari tentang", " ",
               name, ".", " ", description>>
        ELSE <<"Hello friends!", " ", "Let's learn about", " ",
               name, ".", " ", description>>
      factsIntro == IF indonesian THEN <<"Berikut adalah fakta-fakta menarik:">>
                    ELSE <<"Here are some amazing facts:">>
      factsList ==
        Join([i \in 1..Len(facts) |->
                LET index == i - 1
                    factNumber == IF indonesian
                                  THEN <<"Fakta ke-", ToString(index + 1)>>
                                  ELSE <<"Fact number", " ", ToString(index + 1)>>
                IN  factNumber \o <<":", " ", facts[i], ".">>],
             <<" ">>)
      conclusion ==
        IF indonesian
        THEN <<"Itulah informasi menarik tentang", " ", name, ".", " ",
               "Terima kasih sudah mendengarkan!">>
        ELSE <<"That was interesting information about", " ", name, ".", " ",
               "Thank you for listening!">>
  IN  introduction \o <<" ">> \o factsIntro \o <<" ">> \o factsList
        \o <<" ">> \o conclusion

\* The lists of one to n facts over a pool of fact texts.
FactLists(pool, n) == UNION {[1..k -> pool] : k \in 1..n}

\* The bodies the narration is asked for: both fields of every localized pair,
\* and one to MaxFacts facts per locale.
BodyInputs ==
  [name : {"Earth", "Mars"}, nameId : {"Bumi"},
   description : {"desc"}, descriptionId : {"desk"},
   facts : FactLists({"f1", "f2"}, MaxFacts),
   factsId : FactLists({"g1", "g2"}, MaxFacts)]

\* tryBasicBrowserTTS asks for the text of the body in the locale.
BasicNarration ==
  /\ narration = <<>>
  /\ narration' = generateBasicNarration(planetData, useIndonesian)
  /\ UNCHANGED <<hookVars, planetData, useIndonesian, sceneVars, panelVars, routeVars, clicked>>

NarrationInit ==
  /\ audioSupported = TRUE /\ speechSupported = TRUE /\ keyConfigured = FALSE
  /\ HookStart
  /\ planetData \in BodyInputs
  /\ useIndonesian \in BOOLEAN
  /\ narration = <<>>
  /\ SceneStart
  /\ RouteStart

NarrationNext == BasicNarration

NarrationSpec == NarrationInit /\ [][NarrationNext]_vars

----------------------------------------------------------------------------
(* The orbital animation.  Angles are counted in units of pi/12 and elapsed  *)
(* time in ticks of 100 such units of seconds, so that every angle a frame   *)
(* computes is a whole number of units; Math.sin and Math.cos are rounded to *)
(* two decimals, as hundredths.                                              *)

\* Math.sin of 0, pi/12, ..., pi/2, in hundredths.
SinTable == <<0, 26, 50, 71, 87, 97, 100>>

\* Math.sin and Math.cos of a units of pi/12, in hundredths.
MathSin(a) ==
  LET m == a % 24 IN
  IF m <= 6 THEN SinTable[m + 1]
  ELSE IF m <= 12 THEN SinTable[12 - m + 1]
  ELSE IF m <= 18 THEN 0 - SinTable[m - 12 + 1]
  ELSE 0 - SinTable[24 - m + 1]

MathCos(a) == MathSin(a + 6)

\* elapsedTime * orbitSpeed * 0.2, in units of pi/12.
OrbitAngle(elapsedTime, orbitSpeed) ==
  ((elapsedTime * 100) * orbitSpeed * 2) \div (100 * 10)

\* elapsedTime * rotationSpeed * 0.5, in units of pi/12.
SpinAngle(elapsedTime, rotationSpeed) ==
  ((elapsedTime * 100) * rotationSpeed * 5) \div (10 * 10)

\* useFrame taking the radius of the orbit from scale instead of distance.
useFrame_RadiusFromScale(t, data, elapsedTime) ==
  LET t1 == IF data.rotationSpeed > 0
            THEN [t EXCEPT !.rotationY = SpinAngle(elapsedTime, data.rotationSpeed)]
            ELSE t
  IN  IF data.scale > 0
      THEN LET angle == OrbitAngle(elapsedTime, data.orbitSpeed) IN
           [t1 EXCEPT !.angle = angle,
                      !.x = MathSin(angle) * data.scale,
                      !.z = MathCos(angle) * data.scale]
      ELSE t1

\* useFrame advancing the angle by a fixed step per frame.
useFrame_PerFrameStep(t, data, elapsedTime) ==
  LET t1 == IF data.rotationSpeed > 0
            THEN [t EXCEPT !.rotationY = SpinAngle(elapsedTime, data.rotationSpeed)]
            ELSE t
  IN  IF data.distance > 0
      THEN LET angle == t.angle + OrbitAngle(1, data.orbitSpeed) IN
           [t1 EXCEPT !.angle = angle,
                      !.x = MathSin(angle) * data.distance,
                      !.z = MathCos(angle) * data.distance]
      ELSE t1

\* useFrame writing Math.sin to both coordinates.
useFrame_SinForBoth(t, data, elapsedTime) ==
  LET t1 == IF data.rotationSpeed > 0
            THEN [t EXCEPT !.rotationY = SpinAngle(elapsedTime, data.rotationSpeed)]
            ELSE t
  IN  IF data.distance > 0
      THEN LET angle == OrbitAngle(elapsedTime, data.orbitSpeed) IN
           [t1 EXCEPT !.angle = angle,
                      !.x = MathSin(angle) * data.distance,
                      !.z = MathSin(angle) * data.distance]
      ELSE t1

\* The frame callback of CelestialBody on the transform t of its group and
\* mesh.  The component takes no orbitSpeedMultiplier.
useFrame(t, data, elapsedTime) ==
  LET t1 == IF data.rotationSpeed > 0
            THEN [t EXCEPT !.rotationY = SpinAngle(elapsedTime, data.rotationSpeed)]
            ELSE t
  IN  IF data.distance > 0
      THEN LET angle == OrbitAngle(elapsedTime, data.orbitSpeed) IN
           [t1 EXCEPT !.angle = angle,
                      !.x = MathSin(angle) * data.distance,
                      !.z = MathCos(angle) * data.distance]
      ELSE t1

\* The preset multipliers offered, in hundredths.
SpeedOptions == {0, 10, 25, 50, 100, 200, 500, 1000}

\* The presets clicked while the scene animates (Paused, Normal, Fast).
ScenePresets == {0, 100, 200}

\* Time passes between frames.
Tick ==
  /\ clock < MaxTime
  /\ clock' = clock + 1
  /\ UNCHANGED <<hookVars, narrationVars, panelVars, routeVars, clicked, orbitSpeedMultiplier, frameTime,
                 transform, controlVars>>

\* A frame of run r reaches body b.
Frame(r, b) ==
  /\ frameTime' = [frameTime EXCEPT ![r][b] = clock]
  /\ transform' = [transform EXCEPT
                     ![r][b] = useFrame(@, PLANET_DATA[b], clock)]
  /\ UNCHANGED <<hookVars, narrationVars, panelVars, routeVars, clicked, clock, orbitSpeedMultiplier,
                 controlVars>>

\* handleOrbitSpeedChange: setOrbitSpeedMultiplier(multiplier).
HandleOrbitSpeedChange(multiplier) ==
  /\ orbitSpeedMultiplier' = multiplier
  /\ UNCHANGED <<hookVars, narrationVars, panelVars, routeVars, clicked, clock, frameTime, transform,
                 controlVars>>

SceneInit ==
  /\ audioSupported = TRUE /\ speechSupported = TRUE /\ keyConfigured = FALSE
  /\ HookStart
  /\ NarrationStart
  /\ SceneStart
  /\ RouteStart

SceneNext ==
  \/ Tick
  \/ \E r \in Runs, b \in BodyNames : Frame(r, b)
  \/ \E multiplier \in ScenePresets : HandleOrbitSpeedChange(multiplier)

SceneSpec == SceneInit /\ [][SceneNext]_vars

----------------------------------------------------------------------------
(* The orbit speed control: OrbitSpeedSettings under SolarSystemScene.     *)

\* Positions the thumb of the slider is dragged to, in hundredths, some of
\* them off either end of the track or between two steps.
ThumbPositions == {-50, 0, 33, 255, 500, 1000, 1004, 1200}

\* The range input with min="0" and step="0.1" but no max attribute (the
\* default maximum of a range input is 100).
RangeValue_NoMax(position) ==
  LET clamped == IF position < 0 THEN 0
                 ELSE IF position > 10000 THEN 10000 ELSE position
      steps   == (clamped + 5) \div 10
  IN  <<steps \div 10, steps % 10>>

\* e.target.value of <input type="range" min="0" max="10" step="0.1">: the
\* position clamped to the track and rounded to a step, as a decimal string
\* <<integer part, tenths digit>>.
RangeValue(position) ==
  LET clamped == IF position < 0 THEN 0
                 ELSE IF position > 1000 THEN 1000 ELSE position
      steps   == (clamped + 5) \div 10
  IN  <<steps \div 10, steps % 10>>

\* parseFloat of such a string, in hundredths.
parseFloat(value) == value[1] * 100 + value[2] * 10

\* The toggle button: setIsOpen(!isOpen).
ToggleSettings ==
  /\ isOpen' = ~isOpen
  /\ UNCHANGED <<hookVars, narrationVars, panelVars, routeVars, clicked, clock, orbitSpeedMultiplier,
                 frameTime, transform, dragged>>

\* onChange of the slider, rendered while the panel is unfolded:
\* onSpeedChange(parseFloat(e.target.value)).
SliderChange(position) ==
  /\ isOpen
  /\ dragged' = position
  /\ orbitSpeedMultiplier' = parseFloat(RangeValue(position))
  /\ UNCHANGED <<hookVars, narrationVars, panelVars, routeVars, clicked, clock, frameTime, transform, isOpen>>

\* onClick of a preset button: onSpeedChange(option.value).
PresetClick(value) ==
  /\ isOpen
  /\ orbitSpeedMultiplier' = value
  /\ UNCHANGED <<hookVars, narrationVars, panelVars, routeVars, clicked, clock, frameTime, transform,
                 controlVars>>

ControlNext ==
  \/ ToggleSettings
  \/ \E position \in ThumbPositions : SliderChange(position)
  \/ \E value \in SpeedOptions : PresetClick(value)

ControlSpec == SceneInit /\ [][ControlNext]_vars

----------------------------------------------------------------------------
(* The information panel: Home, SceneContent and PlanetInfoModal, which    *)
(* stays mounted under Home and owns the hook.                             *)

\* A click that selects the body whether or not it was selected.
handlePlanetClick_NoToggle(selected, planet) == planet

\* handlePlanetClick of SceneContent, then handlePlanetSelect of Home.
handlePlanetClick(selected, planet) ==
  IF selected = planet THEN "null" ELSE planet

\* A body of the scene is clicked.
PlanetClick(planet) ==
  /\ selectedPlanet' = handlePlanetClick(selectedPlanet, planet)
  /\ UNCHANGED <<hookVars, narrationVars, sceneVars, routeVars>>

\* Escape, a click on the backdrop or the close button: onClose, which is
\* handleCloseModal of Home.
CloseModal ==
  /\ selectedPlanet # "null"
  /\ selectedPlanet' = "null"
  /\ UNCHANGED <<hookVars, narrationVars, sceneVars, routeVars>>

\* The narration button of the panel.
GenerateButton ==
  /\ selectedPlanet # "null" /\ isSupported
  /\ IF isLoading THEN CancelGeneration ELSE GenerateSpeech

\* The pause / resume button, disabled unless playing or paused and not loading.
ToggleButton ==
  /\ selectedPlanet # "null" /\ isSupported
  /\ (isPlaying \/ isPaused) /\ ~isLoading
  /\ Toggle

\* The stop button, disabled likewise.
StopButton ==
  /\ selectedPlanet # "null" /\ isSupported
  /\ (isPlaying \/ isPaused) /\ ~isLoading
  /\ Stop

PanelNext ==
  \/ CloseModal /\ UNCHANGED clicked
  \/ \E planet \in BodyNames : PlanetClick(planet) /\ UNCHANGED clicked
  \/ GenerateButton
  \/ ToggleButton
  \/ StopButton
  \/ \E r \in Reqs : FetchSettles(r)
  \/ \E r \in Reqs : AudioEvent(r)
  \/ \E r \in Reqs : AudioPlaying(r)
  \/ \E r \in Reqs : AudioError(r)
  \/ \E r \in Reqs : AudioEnded(r)
  \/ \E r \in Reqs : UtteranceStart(r)
  \/ \E r \in Reqs : UtteranceEnd(r)
  \/ \E r \in Reqs : UtteranceError(r)
  \/ \E r \in Reqs : UtteranceCancelled(r)

PanelSpec == Init /\ [][PanelNext]_vars

\* PlanetInfoModal renders its panel when it is given a body.
PlanetInfoModal(planet) == planet # "null"

\* Home hands its selection to the modal.
PanelShown == PlanetInfoModal(selectedPlanet)

\* The selection alone: clicks on the bodies of PLANET_DATA, each recorded,
\* and closing of the panel.
BodyClicked(planet) ==
  /\ Len(clicked) < MaxClicks
  /\ clicked' = Append(clicked, planet)
  /\ PlanetClick(planet)

PanelClosed ==
  /\ CloseModal
  /\ UNCHANGED clicked

SelectionNext ==
  \/ \E planet \in AllBodyNames : BodyClicked(planet)
  \/ PanelClosed

SelectionSpec == SceneInit /\ [][SelectionNext]_vars

----------------------------------------------------------------------------
(* The route handlers, step by step.  A request is the parsed body, the     *)
(* value of OPENROUTER_API_KEY and what the two upstream calls will do; a   *)
(* step is the handler running up to its next await of an upstream call.    *)

\* String.prototype.trim: spaces at either end of a text are dropped.
RECURSIVE trim(_)
trim(text) ==
  IF text = <<>> THEN <<>>
  ELSE IF Head(text) = " " THEN trim(Tail(text))
  ELSE IF text[Len(text)] = " " THEN trim(SubSeq(text, 1, Len(text) - 1))
  ELSE text

\* The value a template prints for a property of data ("undefined" when the
\* object has no such property).
Property(data, field) ==
  IF field \in DOMAIN data THEN data[field] ELSE "undefined"

\* The property holding the facts of the locale.
FactsField(indonesian) == IF indonesian THEN "factsId" ELSE "facts"

\* generateBasicNarration of the two routes.  facts.map throws a TypeError
\* when the body has no facts for the locale.
RouteBasicNarration(data, indonesian) ==
  LET name == Property(data, IF indonesian THEN "nameId" ELSE "name")
      description == Property(data, IF indonesian THEN "descriptionId" ELSE "description")
      introduction ==
        IF indonesian
        THEN <<"Halo teman-teman!", " ", "Ayo kita jelajahi", " ", name, "!", " ",
               description>>
        ELSE <<"Hello friends!", " ", "Let's explore", " ", name, "!", " ",
               description>>
      factsIntro == IF indonesian
                    THEN <<"Mari kita pelajari fakta-fakta menakjubkan berikut:">>
                    ELSE <<"Let's learn these amazing facts:">>
      factsList(facts) ==
        Join([i \in 1..Len(facts) |->
                LET index == i - 1
                    factNumber == IF indonesian
                                  THEN <<"Fakta ke-", ToString(index + 1)>>
                                  ELSE <<"Fact number", " ", ToString(index + 1)>>
                IN  factNumber \o <<":", " ", facts[i]>>],
             <<" ">>)
      conclusion ==
        IF indonesian
        THEN <<"Wah, sungguh menakjubkan sekali ya", " ", name, "!", " ",
               "Ayo terus belajar tentang tata surya kita yang luar biasa!", " ",
               "Sampai jumpa di petualangan luar angkasa berikutnya!">>
        ELSE <<"Wow, how amazing", " ", name, " ", "is!", " ",
               "Keep exploring our incredible solar system!", " ",
               "See you on the next space adventure!">>
  IN  IF FactsField(indonesian) \notin DOMAIN data
      THEN [threw |-> TRUE, text |-> <<>>]
      ELSE [threw |-> FALSE,
            text |-> introduction \o <<" ">> \o factsIntro \o <<" ">>
                       \o factsList(data[FactsField(indonesian)])
                       \o <<" ">> \o conclusion]

\* The prompt of generateEnhancedNarration is built before anything is sent:
\* facts.join throws a TypeError when the body has no facts for the locale.
PromptThrows(data, indonesian) == FactsField(indonesian) \notin DOMAIN data

\* The chat completion, as generateEnhancedNarration reads it: the fetch may
\* reject, answer a non-success status, or answer a body whose first choice
\* has no content or has the content given.
Completions ==
  {[kind |-> "rejected", content |-> <<>>],
   [kind |-> "not ok", content |-> <<>>],
   [kind |-> "no content", content |-> <<>>],
   [kind |-> "content", content |-> <<>>],
   [kind |-> "content", content |-> <<" ">>],
   [kind |-> "content", content |-> <<" ", "Once upon a time", ".", " ">>]}

\* The text generateEnhancedNarration has after its fetch; it throws when the
\* trimmed content is missing or empty.
EnhancedNarration(completion) ==
  IF completion.kind = "content" /\ trim(completion.content) # <<>>
  THEN [threw |-> FALSE, text |-> trim(completion.content)]
  ELSE [threw |-> TRUE, text |-> <<>>]

\* The audio/speech call, as generateSpeech reads it: the fetch may reject,
\* answer a non-success status (the OpenAI fallback then throws), answer
\* success with a body arrayBuffer() cannot read, or with audio.
SpeechOutcomes == {"rejected", "not ok", "body unreadable", "audio"}

\* The values OPENROUTER_API_KEY may have.
KeyValues == {"undefined", "your_openrouter_api_key_here", "sk-or-v1"}

HasApiKey(key) == key # "undefined" /\ key # "your_openrouter_api_key_here"

\* The bodies a request may carry as planetData: with both locales' fields,
\* or with the fields of the PlanetData interface only.
RouteBodies ==
  {[name |-> "Earth", nameId |-> "Bumi", description |-> "desc",
    descriptionId |-> "desk", facts |-> <<"f1", "f2">>, factsId |-> <<"g1", "g2">>],
   [name |-> "Earth", description |-> "desc", facts |-> <<"f1", "f2">>]}

\* The parsed request bodies: planetData may be missing.
RequestBodies ==
  {[useIndonesian |-> b] : b \in BOOLEAN}
    \cup {[planetData |-> d, useIndonesian |-> b] : d \in RouteBodies, b \in BOOLEAN}

Requests ==
  [route : {"tts", "enhance-text"}, body : RequestBodies, key : KeyValues,
   completion : Completions, speech : SpeechOutcomes]

\* A handler that has parsed its request.
Received ==
  [pc |-> "received", narration |-> <<>>, source |-> "none",
   speechCalled |-> FALSE, status |-> 0, kind |-> "none"]

\* The handler returns a response.
Answer(h, status, kind) ==
  [h EXCEPT !.pc = "answered", !.status = status, !.kind = kind]

\* The handler hands text to generateSpeech and awaits it.
Synthesize(h, text, source) ==
  [h EXCEPT !.pc = "synthesizing", !.narration = text, !.source = source,
            !.speechCalled = TRUE]

\* The handler returns the text as enhancedText.
AnswerText(h, text, source) ==
  [Answer(h, 200, "text") EXCEPT !.narration = text, !.source = source]

\* POST /api/tts up to the chat completion fetch.  A TypeError from the prompt
\* leaves generateEnhancedNarration, and POST falls back to the basic text.
TtsReceived(q, h) ==
  IF "planetData" \notin DOMAIN q.body THEN Answer(h, 400, "error")
  ELSE IF ~HasApiKey(q.key) THEN Answer(h, 500, "error")
  ELSE IF PromptThrows(q.body.planetData, q.body.useIndonesian)
  THEN LET basic == RouteBasicNarration(q.body.planetData, q.body.useIndonesian)
       IN  IF basic.threw THEN Answer(h, 500, "error")
           ELSE Synthesize(h, basic.text, "basic")
  ELSE [h EXCEPT !.pc = "enriching"]

\* POST /api/tts when an enrichment failure fails the request.
TtsEnriched_NoFallback(q, h) ==
  LET enhanced == EnhancedNarration(q.completion)
  IN  IF enhanced.threw THEN Answer(h, 500, "error")
      ELSE Synthesize(h, enhanced.text, "ai")

\* POST /api/tts from the chat completion to the audio/speech fetch.
TtsEnriched(q, h) ==
  LET enhanced == EnhancedNarration(q.completion)
      basic == RouteBasicNarration(q.body.planetData, q.body.useIndonesian)
  IN  IF ~enhanced.threw THEN Synthesize(h, enhanced.text, "ai")
      ELSE IF basic.threw THEN Answer(h, 500, "error")
      ELSE Synthesize(h, basic.text, "basic")

\* POST /api/tts from the audio/speech fetch to its response.
TtsSynthesized(q, h) ==
  IF q.speech = "audio" THEN Answer(h, 200, "audio")
  ELSE Answer(h, 500, "error")

\* POST /api/enhance-text up to the chat completion fetch.
EnhanceReceived(q, h) ==
  LET basic == RouteBasicNarration(q.body.planetData, q.body.useIndonesian)
  IN  IF "planetData" \notin DOMAIN q.body THEN Answer(h, 400, "error")
      ELSE IF ~HasApiKey(q.key)
      THEN IF basic.threw THEN Answer(h, 500, "error")
           ELSE AnswerText(h, basic.text, "basic")
      ELSE IF PromptThrows(q.body.planetData, q.body.useIndonesian)
      THEN IF basic.threw THEN Answer(h, 500, "error")
           ELSE AnswerText(h, basic.text, "fallback")
      ELSE [h EXCEPT !.pc = "enriching"]

\* POST /api/enhance-text from the chat completion to its response.
EnhanceEnriched(q, h) ==
  LET enhanced == EnhancedNarration(q.completion)
      basic == RouteBasicNarration(q.body.planetData, q.body.useIndonesian)
  IN  IF ~enhanced.threw THEN AnswerText(h, enhanced.text, "ai")
      ELSE IF basic.threw THEN Answer(h, 500, "error")
      ELSE AnswerText(h, basic.text, "fallback")

RouteUnchanged ==
  UNCHANGED <<request, hookVars, narrationVars, sceneVars, panelVars, clicked>>

TtsReceive ==
  /\ request.route = "tts" /\ handler.pc = "received"
  /\ handler' = TtsReceived(request, handler)
  /\ RouteUnchanged

TtsEnrich ==
  /\ request.route = "tts" /\ handler.pc = "enriching"
  /\ handler' = TtsEnriched(request, handler)
  /\ RouteUnchanged

TtsSynthesize ==
  /\ request.route = "tts" /\ handler.pc = "synthesizing"
  /\ handler' = TtsSynthesized(request, handler)
  /\ RouteUnchanged

EnhanceReceive ==
  /\ request.route = "enhance-text" /\ handler.pc = "received"
  /\ handler' = EnhanceReceived(request, handler)
  /\ RouteUnchanged

EnhanceEnrich ==
  /\ request.route = "enhance-text" /\ handler.pc = "enriching"
  /\ handler' = EnhanceEnriched(request, handler)
  /\ RouteUnchanged

RouteInit ==
  /\ audioSupported = TRUE /\ speechSupported = TRUE /\ keyConfigured = FALSE
  /\ HookStart
  /\ NarrationStart
  /\ SceneStart
  /\ request \in Requests
  /\ handler = Received

RouteNext ==
  \/ TtsReceive
  \/ TtsEnrich
  \/ TtsSynthesize
  \/ EnhanceReceive
  \/ EnhanceEnrich

RouteSpec == RouteInit /\ [][RouteNext]_vars

----------------------------------------------------------------------------
(* What is audible.                                                        *)

AudioAudible(r) == audio[r] = "playing"
UttAudible(r) == utt[r] = "speaking" /\ ~synthPaused
Audible(r) == AudioAudible(r) \/ UttAudible(r)
AnyAudible == \E r \in Reqs : Audible(r)
InTier(r) == pc[r] \notin {"new", "done"}

----------------------------------------------------------------------------
(* Properties.                                                             *)

\* C1: a request whose /api/tts fetch was still in flight when a later
\* generateSpeech was called never becomes audible, neither as a playing audio
\* element nor as a spoken utterance, in any later tier.
C1_SupersededStaysSilent ==
  \A r \in Reqs : superseded[r] => ~Audible(r)

\* C2: at most one narration is audible: never two audio elements playing, and
\* never an audio element playing while an utterance is being spoken.
C2_AtMostOneAudible ==
  Cardinality({r \in Reqs : AudioAudible(r)})
    + Cardinality({r \in Reqs : UttAudible(r)}) <= 1

\* C3: once cancelGeneration has run for a request that was in a tier, that
\* request starts no further tier (its tier cursor stays where it was) and
\* hands no new utterance to speak().
C3_CancelStopsTheChain ==
  [][\A r \in Reqs : cancelled'[r] =>
        /\ tier'[r] = tier[r]
        /\ (utt'[r] = "queued" => utt[r] = "queued")]_vars

\* C4: the tiers of one request are a strict chain: every tier below the one
\* the request is in has been seen to fail (so the tier-2 fetch is in flight
\* only after tier 1 failed, and tier 3 speaks only after tier 2 failed), and
\* the tier in progress is the only one not yet settled.
C4_TiersStrictlySequential ==
  \A r \in Reqs :
    /\ \A k \in Tiers : k < tier[r] => k \in failed[r]
    /\ InTier(r) => tier[r] \in Tiers /\ tier[r] \notin failed[r]
    /\ failed[r] \subseteq 1..tier[r]

C4_Witness ==
  \E r \in Reqs : pc[r] = "speak" /\ tier[r] = 3 /\ failed[r] = {1, 2}

\* C5: while a request that was never cancelled works through its tiers, no
\* other generateSpeech call having been made, every tier seen to fail has
\* been followed by the next tier, and error is still null.
C5_FailuresFallThroughSilently ==
  \A r \in Reqs :
    (InTier(r) /\ ~cancelled[r] /\ \A q \in Reqs \ {r} : pc[q] = "new")
    => /\ \A k \in failed[r] : tier[r] > k
       /\ error = "null"

C7_ToggleWhileLoadingIsNoOp ==
  [][(lastCall' = "toggle" /\ isLoading) =>
       UNCHANGED <<isLoading, isPlaying, isPaused, error, ttsMode,
                   audio, events, utt, synthPaused>>]_vars

C7_Witness ==
  /\ lastCall = "toggle" /\ isLoading /\ isPlaying /\ ~isPaused
  /\ \E r \in Reqs : UttAudible(r)

\* C8: a toggle() called while the narration of the latest request is playing
\* (no other invocation being in a tier) silences it, and a toggle() called
\* while it is paused makes it audible again, whichever tier produced it.
C8_TogglePausesAndResumes ==
  [][(lastCall' = "toggle" /\ nreq > 0 /\ isPlaying
        /\ \A q \in Reqs \ {nreq} : ~InTier(q)) =>
       /\ (~isPaused /\ Audible(nreq)) => ~Audible(nreq)'
       /\ (isPaused /\ ~Audible(nreq)
             /\ (utt[nreq] = "speaking" \/ audio[nreq] = "paused"))
          => Audible(nreq)']_vars

\* C9: isLoading and isPlaying are never both true.
C9_NeverRequestingAndPlaying ==
  ~(isLoading /\ isPlaying)

C11_UnsupportedAttemptsNothing ==
  /\ [](~isSupported => /\ ~isLoading /\ nreq = 0
                        /\ \A r \in Reqs : pc[r] = "new" /\ tier[r] = 0)
  /\ [][(lastCall' = "generateSpeech" /\ ~isSupported) =>
          /\ error' = UnsupportedMsg
          /\ UNCHANGED <<isLoading, isPlaying, isPaused, ttsMode, audioRef,
                         utteranceRef, abortControllerRef, nreq, pc, tier,
                         failed, audio, events, utt, synthPaused>>]_vars

C11_Witness ==
  ~isSupported /\ lastCall = "generateSpeech" /\ error = UnsupportedMsg

\* C12: without speechSynthesis no utterance ever exists; a tier-1 fetch that
\* settles in failure creates no audio element, and a request whose tier 1
\* failed without one never gets one, so it produces no audio; such a request
\* is either waiting for /api/enhance-text or finished with all three tiers
\* failed; the step in which its last tier fails leaves error = 'All TTS
\* methods failed' and isLoading false, and, for a request that is the only
\* one made and was not cancelled, isPlaying false.
C12_NoSpeechEndsInError ==
  /\ [](~speechSupported => \A r \in Reqs :
          /\ utt[r] = "none"
          /\ (1 \in failed[r] /\ audio[r] = "none") =>
               \/ pc[r] = "fetch" /\ tier[r] = 2
               \/ pc[r] = "done" /\ failed[r] = Tiers)
  /\ [][\A r \in Reqs :
          /\ (pc[r] = "fetch" /\ tier[r] = 1 /\ 1 \in failed'[r]) =>
               audio'[r] = "none"
          /\ (1 \in failed[r] /\ audio[r] = "none") => audio'[r] = "none"
          /\ (~speechSupported /\ failed'[r] = Tiers /\ failed[r] # Tiers) =>
               /\ error' = AllFailedMsg /\ ~isLoading' /\ pc'[r] = "done"
               /\ (nreq' = 1 /\ ~cancelled'[r] /\ audio[r] = "none") =>
                    ~isPlaying']_vars

C12_Witness ==
  /\ ~speechSupported /\ nreq = 1 /\ ~cancelled[1] /\ audio[1] = "none"
  /\ failed[1] = Tiers /\ pc[1] = "done"
  /\ error = AllFailedMsg /\ ~isLoading /\ ~isPlaying

\* C13: a step that calls cancelGeneration, or generateSpeech (whose cleanup
\* cancels what came before), leaves no fetch in flight that was in flight
\* before it: every request that was waiting for a response has been aborted.
C13_CancelAbortsEveryFetch ==
  [][lastCall' \in {"cancelGeneration", "generateSpeech"} =>
       \A r \in Reqs :
         ~(pc[r] = "fetch" /\ pc'[r] = "fetch" /\ tier'[r] = tier[r])]_vars

\* Idle: nothing requested, nothing playing or paused, nothing audible.
Idle == ~isLoading /\ ~isPlaying /\ ~isPaused /\ ~AnyAudible

\* C14: a cancelGeneration call made while the latest request was in progress
\* (no earlier request being still in a tier) leaves the pipeline Idle, and as
\* long as no generateSpeech call follows, no callback the browser delivers
\* takes it out of Idle.
C14_CancelledStaysIdle ==
  [][(nreq > 0 /\ cancelled'[nreq] /\ nreq' = nreq
        /\ \A q \in Reqs \ {nreq} : ~InTier(q)) =>
       /\ lastCall' = "cancelGeneration" => Idle'
       /\ (lastCall' = "event" /\ Idle) => Idle']_vars

\* C15: while the latest request is in a tier and was not cancelled, isLoading
\* is true; and a callback that moves a superseded request on (to its next
\* tier or to its end) changes none of isLoading, ttsMode, error, isPlaying.
C15_OnlyLatestRequestIsCurrent ==
  /\ [](nreq > 0 /\ InTier(nreq) /\ ~cancelled[nreq] => isLoading)
  /\ [][\A q \in Reqs :
          (lastCall' = "event" /\ superseded[q]
             /\ (pc'[q] # pc[q] \/ tier'[q] # tier[q]))
          => UNCHANGED <<isLoading, ttsMode, error, isPlaying>>]_vars

\* The labelled fact i of a list, as the claim words it.
LabelledFact(indonesian, i, fact) ==
  (IF indonesian THEN <<"Fakta ke-", ToString(i)>>
   ELSE <<"Fact number", " ", ToString(i)>>) \o <<":", " ", fact, ".">>

Framed(r, b) == frameTime[r][b] >= 0
RadiusSquared(r, b) == transform[r][b].x * transform[r][b].x
                         + transform[r][b].z * transform[r][b].z

\* C17: a frame that reaches an orbiting body while orbitSpeedMultiplier is 0
\* puts it where the frame at elapsed time 0 puts it, whatever the clock
\* reads, and sets its rotation to the angle of that reading.
C17_ZeroMultiplierFreezesOrbit ==
  [][\A r \in Runs, b \in BodyNames :
       (frameTime'[r][b] # frameTime[r][b] /\ orbitSpeedMultiplier = 0
          /\ PLANET_DATA[b].distance > 0)
       => /\ transform'[r][b].x = MathSin(0) * PLANET_DATA[b].distance
          /\ transform'[r][b].z = MathCos(0) * PLANET_DATA[b].distance
          /\ transform'[r][b].rotationY
               = SpinAngle(clock, PLANET_DATA[b].rotationSpeed)]_vars

\* C18: a body with distance 0 is at (0, 0, 0) in every state, whatever the
\* clock reads, however many frames reached it and whatever the multiplier is.
C18_SunStaysAtOrigin ==
  \A r \in Runs, b \in BodyNames :
    PLANET_DATA[b].distance = 0 =>
      transform[r][b].x = 0 /\ transform[r][b].y = 0 /\ transform[r][b].z = 0

C18_Witness ==
  \E r \in Runs, b \in BodyNames :
    /\ PLANET_DATA[b].distance = 0 /\ frameTime[r][b] = MaxTime
    /\ transform[r][b].rotationY > 0
    /\ orbitSpeedMultiplier = 200

\* C19: what a frame leaves behind depends on the clock reading of that frame
\* only: the same body in two runs whose last frames read the same time has
\* the same angle, position and rotation, whatever frames came before in
\* either run; and where one read twice the time of the other, its orbital
\* angle is twice the other's.
C19_TransformIsFunctionOfTime ==
  \A b \in BodyNames, r1 \in Runs, r2 \in Runs :
    /\ (Framed(r1, b) /\ frameTime[r1][b] = frameTime[r2][b])
         => transform[r1][b] = transform[r2][b]
    /\ (Framed(r2, b) /\ frameTime[r1][b] = 2 * frameTime[r2][b])
         => transform[r1][b].angle = 2 * transform[r2][b].angle

C19_Witness ==
  /\ frameTime[1]["Earth"] = 2 /\ frameTime[2]["Earth"] = 1
  /\ transform[2]["Earth"].angle > 0
  /\ transform[1]["Earth"].angle = 2 * transform[2]["Earth"].angle
  /\ frameTime[1]["Neptune"] = 3 /\ frameTime[2]["Neptune"] = 3
  /\ transform[1]["Neptune"].x # 0
  /\ transform[1]["Neptune"] = transform[2]["Neptune"]

\* C20 (as claimed): every orbiting body a frame has reached is exactly on the
\* circle of its distance: x^2 + z^2 = d^2 (coordinates in hundredths), y = 0.
C20_ExactlyOnCircle ==
  \A r \in Runs, b \in BodyNames :
    (Framed(r, b) /\ PLANET_DATA[b].distance > 0) =>
      /\ RadiusSquared(r, b)
           = (100 * PLANET_DATA[b].distance) * (100 * PLANET_DATA[b].distance)
      /\ transform[r][b].y = 0

\* C20 (amended): it is on that circle up to the rounding of Math.sin and
\* Math.cos: x^2 + z^2 differs from d^2 by at most two hundredths of d^2,
\* and y = 0.
C20_OnCircleWithinRounding ==
  \A r \in Runs, b \in BodyNames :
    (Framed(r, b) /\ PLANET_DATA[b].distance > 0) =>
      LET d2 == (100 * PLANET_DATA[b].distance) * (100 * PLANET_DATA[b].distance)
          diff == RadiusSquared(r, b) - d2
      IN  /\ 100 * diff <= 2 * d2
          /\ 100 * (0 - diff) <= 2 * d2
          /\ transform[r][b].y = 0

C20_Witness ==
  \E r \in Runs :
    /\ frameTime[r]["Neptune"] = 1
    /\ transform[r]["Neptune"].x = 71 * 52
    /\ transform[r]["Neptune"].z = 71 * 52

\* C21: in PLANET_DATA a body has distance 0 exactly when its type is 'sun',
\* and exactly one body is of type 'sun'; the bodies the scene animates are
\* entries of that table.
C21_OnlyTheStarAtDistanceZero ==
  /\ \A b \in DOMAIN PLANET_DATA :
       PLANET_DATA[b].distance = 0 <=> PLANET_DATA[b].type = "sun"
  /\ Cardinality({b \in DOMAIN PLANET_DATA : PLANET_DATA[b].type = "sun"}) = 1
  /\ \A r \in Runs, b \in BodyNames :
       Framed(r, b) => b \in DOMAIN PLANET_DATA

C21_Witness ==
  \E r \in Runs, s \in BodyNames, p \in BodyNames :
    /\ Framed(r, s) /\ Framed(r, p)
    /\ PLANET_DATA[s].type = "sun" /\ PLANET_DATA[s].distance = 0
    /\ PLANET_DATA[p].type = "planet" /\ PLANET_DATA[p].distance > 0
    /\ Cardinality(DOMAIN PLANET_DATA) = Len(PlanetEntries)

\* C22: the multiplier starts at 1 and, whatever the slider is dragged to and
\* whichever preset is clicked, stays within [0, 10] (0..1000 hundredths).
C22_MultiplierWithinRange ==
  orbitSpeedMultiplier \in 0..1000

C22_Witness ==
  /\ dragged = 1200
  /\ orbitSpeedMultiplier = parseFloat(RangeValue(dragged))
  /\ orbitSpeedMultiplier = 1000

\* Quiet: not playing, not paused, nothing audible.
Quiet == ~isPlaying /\ ~isPaused /\ ~AnyAudible

\* C23: from a stop() call made while the narration of the only request made
\* was playing or paused until the next play(), toggle() or generateSpeech
\* call, isPlaying and isPaused are false and nothing is audible.
C23_StoppedStaysQuiet ==
  (stopped /\ nreq = 1) => Quiet

\* C24: isPaused is true only while isPlaying is true.
C24_PausedOnlyWhilePlaying ==
  isPaused => isPlaying

\* C25: whenever an audio element is playing ttsMode is 'ai', and whenever an
\* utterance is being spoken ttsMode is not 'ai'.
C25_ControlsAddressWhatSounds ==
  \A r \in Reqs :
    /\ AudioAudible(r) => ttsMode = "ai"
    /\ UttAudible(r) => ttsMode # "ai"

\* C26: a step that closes the information panel (selectedPlanet becomes
\* null) leaves no narration audible and no request of the panel in progress.
C26_ClosingSilencesNarration ==
  [][(selectedPlanet # "null" /\ selectedPlanet' = "null") =>
       /\ ~AnyAudible'
       /\ \A r \in Reqs : ~InTier(r)']_vars

\* C27: as long as the browser delivers what it owes, whenever isLoading is
\* true or a generateSpeech invocation is in a tier, eventually isLoading is
\* false and every invocation has returned, whether or not stop(),
\* cancelGeneration or another generateSpeech call intervenes.
C27_EveryRequestEnds ==
  (isLoading \/ \E r \in Reqs : InTier(r))
    ~> (~isLoading /\ \A r \in Reqs : ~InTier(r))

C27_Witness ==
  /\ isSupported /\ nreq = MaxReq
  /\ superseded[1] /\ cancelled[2] /\ stopped
  /\ \A r \in Reqs : pc[r] = "done"
  /\ ~isLoading

C29_EnhanceTextNeverFails ==
  (/\ request.route = "enhance-text" /\ handler.pc = "answered"
   /\ "planetData" \in DOMAIN request.body)
  => /\ handler.status = 200
     /\ handler.kind = "text"
     /\ handler.narration # <<>>

\* C30: a click on a body that is not selected makes it the selected body,
\* whatever was selected before; a click on the selected body leaves nothing
\* selected; the selection is null or one body of PLANET_DATA, and the panel
\* is shown exactly when it is not null.
C30_SelectionIsAToggle ==
  /\ [][clicked' # clicked =>
          LET planet == clicked'[Len(clicked')]
          IN  /\ selectedPlanet # planet => selectedPlanet' = planet
              /\ selectedPlanet = planet => selectedPlanet' = "null"]_vars
  /\ [](/\ selectedPlanet \in AllBodyNames \cup {"null"}
        /\ PanelShown <=> selectedPlanet # "null"
        /\ selectedPlanet # "null" => /\ clicked # <<>>
                                      /\ selectedPlanet = clicked[Len(clicked)])

C30_Witness ==
  /\ clicked = <<"Earth", "Mars", "Mars">>
  /\ selectedPlanet = "null"
  /\ ~PanelShown
====
